---- MODULE Spec2Model ----
(***************************************************************************)
(* A model of concurrent.Execute (src/concurrent/concurrent.go): the       *)
(* fan-out / fan-in executor.  One call of Execute is modelled: the        *)
(* caller's goroutine, the numOfRoutines worker goroutines, the            *)
(* distributor goroutine and the completion (wg.Wait) goroutine, which     *)
(* communicate over unbuffered channels.  A send on an unbuffered channel  *)
(* and the matching receive are one step (a rendezvous).                   *)
(***************************************************************************)
EXTENDS Integers, Sequences, FiniteSets, Bags, TLC

\* ------------------------------------------------------------------ bounds
MaxRoutines == 3
MaxLen == 3

\* The values an input element may take.
Values == {1, 2}

VARIABLES
    numOfRoutines,  \* the numOfRoutines argument of the call
    inputs,         \* the inputs argument of the call
    failOn,         \* the input values on which process does not return
    callerPc,       \* where the calling goroutine is
    spawnIdx,       \* the i of the spawn loop (line 21)
    inClosed,       \* inputChannels[c] has been closed
    outClosed,      \* outputChannel has been closed
    wg,             \* the WaitGroup's counter
    workerPc,       \* where each worker goroutine is
    workerIn,       \* the input a worker holds
    workerPos,      \* (history) the input position of the input it holds
    workerOut,      \* the result a worker is sending
    distPc,         \* where the distributor goroutine is
    distI,          \* the i of the distributor's send loop (line 33)
    distC,          \* the index of the distributor's close loop (line 37)
    waitPc,         \* where the completion goroutine is
    outputs,        \* the outputs slice of the caller
    outPos,         \* (history) the input position of each element of outputs
    procBy,         \* (history) per worker, the positions it invoked process on
    calls,          \* (history) the number of invocations of process
    crashed         \* the program has died of an unrecovered panic

vars == <<numOfRoutines, inputs, failOn, callerPc, spawnIdx, inClosed, outClosed,
          wg, workerPc, workerIn, workerPos, workerOut, distPc, distI, distC,
          waitPc, outputs, outPos, procBy, calls, crashed>>

\* ------------------------------------------------------------- helpers

\* All sequences over S of length at most n.
SeqsUpTo(S, n) == UNION {[1..k -> S] : k \in 0..n}

\* The caller-supplied transformation (the spec's example "double").
process(x) == 2 * x

\* PoolSize with a non-positive numOfRoutines silently defaulted to one worker.
PoolSizeClamped == IF numOfRoutines < 1 THEN 1 ELSE numOfRoutines

\* The pool size used by make (line 11), the loops (lines 13, 21), wg.Add
\* (line 18) and the modulus (line 34): the parameter itself, unvalidated.
PoolSize == numOfRoutines

\* The indices of the worker goroutines and of their input channels.
Workers == 0..(PoolSize - 1)

M == Len(inputs)

\* ChannelOf with the round-robin shifted by one.
ChannelOfShifted(i) == (i + 1) % PoolSize

\* ChannelOf with the workers taken from the last to the first.
ChannelOfReversed(i) == PoolSize - 1 - (i % PoolSize)

\* channel := i % numOfRoutines   (line 34), for numOfRoutines > 0
ChannelOf(i) == i % PoolSize

\* ---------------------------------------------------------------- Init
Init ==
    /\ numOfRoutines \in (-1)..MaxRoutines
    /\ inputs \in SeqsUpTo(Values, MaxLen)
    /\ failOn \in SUBSET Values
    /\ callerPc = "start"
    /\ spawnIdx = 0
    /\ inClosed = [c \in Workers |-> FALSE]
    /\ outClosed = FALSE
    /\ wg = 0
    /\ workerPc = [w \in Workers |-> "unspawned"]
    /\ workerIn = [w \in Workers |-> 0]
    /\ workerPos = [w \in Workers |-> -1]
    /\ workerOut = [w \in Workers |-> 0]
    /\ distPc = "unspawned"
    /\ distI = 0
    /\ distC = 0
    /\ waitPc = "unspawned"
    /\ outputs = <<>>
    /\ outPos = <<>>
    /\ procBy = [w \in Workers |-> <<>>]
    /\ calls = 0
    /\ crashed = FALSE

\* ------------------------------------------------------ the caller (Execute)

\* Lines 11-18: make the channels, wg.Add(numOfRoutines).  make([]chan, n) with
\* n < 0 panics in the caller ("makeslice: len out of range").
MakeChannels ==
    /\ ~crashed
    /\ callerPc = "start"
    /\ IF PoolSize < 0
         THEN /\ callerPc' = "panicked"
              /\ wg' = wg
         ELSE /\ callerPc' = "spawnWorkers"
              /\ wg' = wg + PoolSize
    /\ UNCHANGED <<numOfRoutines, inputs, failOn, spawnIdx, inClosed, outClosed,
                   workerPc, workerIn, workerPos, workerOut, distPc, distI, distC,
                   waitPc, outputs, outPos, procBy, calls, crashed>>

\* Lines 21-29: one turn of the spawn loop, the go statement of worker i.
SpawnWorker ==
    /\ ~crashed
    /\ callerPc = "spawnWorkers"
    /\ spawnIdx < PoolSize
    /\ workerPc' = [workerPc EXCEPT ![spawnIdx] = "recv"]
    /\ spawnIdx' = spawnIdx + 1
    /\ UNCHANGED <<numOfRoutines, inputs, failOn, callerPc, inClosed, outClosed, wg,
                   workerIn, workerPos, workerOut, distPc, distI, distC, waitPc,
                   outputs, outPos, procBy, calls, crashed>>

\* Lines 21, 32-40: the spawn loop ends and the distributor is started.
SpawnDistributor ==
    /\ ~crashed
    /\ callerPc = "spawnWorkers"
    /\ spawnIdx >= PoolSize
    /\ distPc' = "run"
    /\ callerPc' = "spawnWait"
    /\ UNCHANGED <<numOfRoutines, inputs, failOn, spawnIdx, inClosed, outClosed, wg,
                   workerPc, workerIn, workerPos, workerOut, distI, distC, waitPc,
                   outputs, outPos, procBy, calls, crashed>>

\* Lines 42-48: the completion goroutine is started; outputs := []TypeOut{}.
SpawnWaiter ==
    /\ ~crashed
    /\ callerPc = "spawnWait"
    /\ waitPc' = "wait"
    /\ callerPc' = "drain"
    /\ outputs' = <<>>
    /\ UNCHANGED <<numOfRoutines, inputs, failOn, spawnIdx, inClosed, outClosed, wg,
                   workerPc, workerIn, workerPos, workerOut, distPc, distI, distC,
                   outPos, procBy, calls, crashed>>

\* Collect with "outputs = append(outputs, o)" miswritten so that the slice is
\* rebuilt from the last value only.
CollectOverwrite(w) ==
    /\ ~crashed
    /\ callerPc = "drain"
    /\ ~outClosed
    /\ workerPc[w] = "send"
    /\ outputs' = <<workerOut[w]>>
    /\ outPos' = <<workerPos[w]>>
    /\ workerPc' = [workerPc EXCEPT ![w] = "recv"]
    /\ workerIn' = [workerIn EXCEPT ![w] = 0]
    /\ workerPos' = [workerPos EXCEPT ![w] = -1]
    /\ workerOut' = [workerOut EXCEPT ![w] = 0]
    /\ UNCHANGED <<numOfRoutines, inputs, failOn, callerPc, spawnIdx, inClosed,
                   outClosed, wg, distPc, distI, distC, waitPc, procBy, calls,
                   crashed>>

\* Collect with the received value put in front of the slice instead of behind.
CollectPrepend(w) ==
    /\ ~crashed
    /\ callerPc = "drain"
    /\ ~outClosed
    /\ workerPc[w] = "send"
    /\ outputs' = <<workerOut[w]>> \o outputs
    /\ outPos' = <<workerPos[w]>> \o outPos
    /\ workerPc' = [workerPc EXCEPT ![w] = "recv"]
    /\ workerIn' = [workerIn EXCEPT ![w] = 0]
    /\ workerPos' = [workerPos EXCEPT ![w] = -1]
    /\ workerOut' = [workerOut EXCEPT ![w] = 0]
    /\ UNCHANGED <<numOfRoutines, inputs, failOn, callerPc, spawnIdx, inClosed,
                   outClosed, wg, distPc, distI, distC, waitPc, procBy, calls,
                   crashed>>

\* Lines 26 and 49-50: worker w's send on outputChannel meets the caller's
\* receive; the caller appends the value.
Collect(w) ==
    /\ ~crashed
    /\ callerPc = "drain"
    /\ ~outClosed
    /\ workerPc[w] = "send"
    /\ outputs' = Append(outputs, workerOut[w])
    /\ outPos' = Append(outPos, workerPos[w])
    /\ workerPc' = [workerPc EXCEPT ![w] = "recv"]
    /\ workerIn' = [workerIn EXCEPT ![w] = 0]
    /\ workerPos' = [workerPos EXCEPT ![w] = -1]
    /\ workerOut' = [workerOut EXCEPT ![w] = 0]
    /\ UNCHANGED <<numOfRoutines, inputs, failOn, callerPc, spawnIdx, inClosed,
                   outClosed, wg, distPc, distI, distC, waitPc, procBy, calls,
                   crashed>>

\* Lines 49, 53: the range over outputChannel ends once it is closed; return.
Return ==
    /\ ~crashed
    /\ callerPc = "drain"
    /\ outClosed
    /\ callerPc' = "returned"
    /\ UNCHANGED <<numOfRoutines, inputs, failOn, spawnIdx, inClosed, outClosed, wg,
                   workerPc, workerIn, workerPos, workerOut, distPc, distI, distC,
                   waitPc, outputs, outPos, procBy, calls, crashed>>

\* ------------------------------------------------------------ the workers

\* Process with the worker forwarding its input instead of process(input).
ProcessIdentity(w) ==
    /\ ~crashed
    /\ workerPc[w] = "process"
    /\ calls' = calls + 1
    /\ procBy' = [procBy EXCEPT ![w] = Append(@, workerPos[w])]
    /\ IF workerIn[w] \in failOn
         THEN /\ workerPc' = [workerPc EXCEPT ![w] = "panicking"]
              /\ workerOut' = workerOut
         ELSE /\ workerPc' = [workerPc EXCEPT ![w] = "send"]
              /\ workerOut' = [workerOut EXCEPT ![w] = workerIn[w]]
    /\ UNCHANGED <<numOfRoutines, inputs, failOn, callerPc, spawnIdx, inClosed,
                   outClosed, wg, workerIn, workerPos, distPc, distI, distC, waitPc,
                   outputs, outPos, crashed>>

\* Process with process called a second time on the same input.
ProcessTwice(w) ==
    /\ ~crashed
    /\ workerPc[w] = "process"
    /\ calls' = calls + 2
    /\ procBy' = [procBy EXCEPT ![w] = Append(Append(@, workerPos[w]), workerPos[w])]
    /\ IF workerIn[w] \in failOn
         THEN /\ workerPc' = [workerPc EXCEPT ![w] = "panicking"]
              /\ workerOut' = workerOut
         ELSE /\ workerPc' = [workerPc EXCEPT ![w] = "send"]
              /\ workerOut' = [workerOut EXCEPT ![w] = process(workerIn[w])]
    /\ UNCHANGED <<numOfRoutines, inputs, failOn, callerPc, spawnIdx, inClosed,
                   outClosed, wg, workerIn, workerPos, distPc, distI, distC, waitPc,
                   outputs, outPos, crashed>>

\* Line 26: process(input).  It returns its result, or it does not return
\* (a panic, runtime.Goexit) and the goroutine starts to unwind.
Process(w) ==
    /\ ~crashed
    /\ workerPc[w] = "process"
    /\ calls' = calls + 1
    /\ procBy' = [procBy EXCEPT ![w] = Append(@, workerPos[w])]
    /\ IF workerIn[w] \in failOn
         THEN /\ workerPc' = [workerPc EXCEPT ![w] = "panicking"]
              /\ workerOut' = workerOut
         ELSE /\ workerPc' = [workerPc EXCEPT ![w] = "send"]
              /\ workerOut' = [workerOut EXCEPT ![w] = process(workerIn[w])]
    /\ UNCHANGED <<numOfRoutines, inputs, failOn, callerPc, spawnIdx, inClosed,
                   outClosed, wg, workerIn, workerPos, distPc, distI, distC, waitPc,
                   outputs, outPos, crashed>>

\* WorkerExit without the deferred wg.Done().
WorkerExitNoDone(w) ==
    /\ ~crashed
    /\ workerPc[w] = "recv"
    /\ inClosed[w]
    /\ workerPc' = [workerPc EXCEPT ![w] = "done"]
    /\ UNCHANGED <<numOfRoutines, inputs, failOn, callerPc, spawnIdx, inClosed,
                   outClosed, wg, workerIn, workerPos, workerOut, distPc, distI,
                   distC, waitPc, outputs, outPos, procBy, calls, crashed>>

\* Lines 25, 24: the range over the closed input channel ends; the deferred
\* wg.Done() runs and the worker is gone.
WorkerExit(w) ==
    /\ ~crashed
    /\ workerPc[w] = "recv"
    /\ inClosed[w]
    /\ workerPc' = [workerPc EXCEPT ![w] = "done"]
    /\ wg' = wg - 1
    /\ UNCHANGED <<numOfRoutines, inputs, failOn, callerPc, spawnIdx, inClosed,
                   outClosed, workerIn, workerPos, workerOut, distPc, distI, distC,
                   waitPc, outputs, outPos, procBy, calls, crashed>>

\* Line 24: the deferred wg.Done() of a worker that unwinds from process.
Unwind(w) ==
    /\ ~crashed
    /\ workerPc[w] = "panicking"
    /\ workerPc' = [workerPc EXCEPT ![w] = "fatal"]
    /\ wg' = wg - 1
    /\ UNCHANGED <<numOfRoutines, inputs, failOn, callerPc, spawnIdx, inClosed,
                   outClosed, workerIn, workerPos, workerOut, distPc, distI, distC,
                   waitPc, outputs, outPos, procBy, calls, crashed>>

\* ---------------------------------------------------------- the distributor

\* HandOff with the distributor walking inputs from the last element to the first.
HandOffReverse(w) ==
    /\ ~crashed
    /\ distPc = "run"
    /\ distI < M
    /\ PoolSize # 0
    /\ w = ChannelOf(distI)
    /\ workerPc[w] = "recv"
    /\ ~inClosed[w]
    /\ workerPc' = [workerPc EXCEPT ![w] = "process"]
    /\ workerIn' = [workerIn EXCEPT ![w] = inputs[M - distI]]
    /\ workerPos' = [workerPos EXCEPT ![w] = M - 1 - distI]
    /\ distI' = distI + 1
    /\ UNCHANGED <<numOfRoutines, inputs, failOn, callerPc, spawnIdx, inClosed,
                   outClosed, wg, workerOut, distPc, distC, waitPc, outputs, outPos,
                   procBy, calls, crashed>>

\* HandOff with a buffered input channel: the send does not wait for the worker
\* to be receiving.
HandOffBuffered(w) ==
    /\ ~crashed
    /\ distPc = "run"
    /\ distI < M
    /\ PoolSize # 0
    /\ w = ChannelOf(distI)
    /\ workerPc[w] \in {"recv", "send"}
    /\ ~inClosed[w]
    /\ workerPc' = [workerPc EXCEPT ![w] = "process"]
    /\ workerIn' = [workerIn EXCEPT ![w] = inputs[distI + 1]]
    /\ workerPos' = [workerPos EXCEPT ![w] = distI]
    /\ distI' = distI + 1
    /\ UNCHANGED <<numOfRoutines, inputs, failOn, callerPc, spawnIdx, inClosed,
                   outClosed, wg, workerOut, distPc, distC, waitPc, outputs, outPos,
                   procBy, calls, crashed>>

\* Lines 33-35 and 25: the distributor's send of inputs[i] on
\* inputChannels[i % numOfRoutines] meets worker w's receive.
HandOff(w) ==
    /\ ~crashed
    /\ distPc = "run"
    /\ distI < M
    /\ PoolSize # 0
    /\ w = ChannelOf(distI)
    /\ workerPc[w] = "recv"
    /\ ~inClosed[w]
    /\ workerPc' = [workerPc EXCEPT ![w] = "process"]
    /\ workerIn' = [workerIn EXCEPT ![w] = inputs[distI + 1]]
    /\ workerPos' = [workerPos EXCEPT ![w] = distI]
    /\ distI' = distI + 1
    /\ UNCHANGED <<numOfRoutines, inputs, failOn, callerPc, spawnIdx, inClosed,
                   outClosed, wg, workerOut, distPc, distC, waitPc, outputs, outPos,
                   procBy, calls, crashed>>

\* DistFault with the modulus evaluated whether or not an input is left.
DistFaultHoisted ==
    /\ ~crashed
    /\ distPc = "run"
    /\ PoolSize = 0
    /\ distPc' = "fatal"
    /\ UNCHANGED <<numOfRoutines, inputs, failOn, callerPc, spawnIdx, inClosed,
                   outClosed, wg, workerPc, workerIn, workerPos, workerOut, distI,
                   distC, waitPc, outputs, outPos, procBy, calls, crashed>>

\* Line 34: i % numOfRoutines with numOfRoutines = 0 panics (integer divide by
\* zero) in the distributor goroutine.
DistFault ==
    /\ ~crashed
    /\ distPc = "run"
    /\ distI < M
    /\ PoolSize = 0
    /\ distPc' = "fatal"
    /\ UNCHANGED <<numOfRoutines, inputs, failOn, callerPc, spawnIdx, inClosed,
                   outClosed, wg, workerPc, workerIn, workerPos, workerOut, distI,
                   distC, waitPc, outputs, outPos, procBy, calls, crashed>>

\* CloseInput with the close loop not waiting for the send loop to end.
CloseInputEarly ==
    /\ ~crashed
    /\ distPc = "run"
    /\ distC < PoolSize
    /\ inClosed' = [inClosed EXCEPT ![distC] = TRUE]
    /\ distC' = distC + 1
    /\ UNCHANGED <<numOfRoutines, inputs, failOn, callerPc, spawnIdx, outClosed, wg,
                   workerPc, workerIn, workerPos, workerOut, distPc, distI, waitPc,
                   outputs, outPos, procBy, calls, crashed>>

\* Lines 37-39: one turn of the close loop.
CloseInput ==
    /\ ~crashed
    /\ distPc = "run"
    /\ distI >= M
    /\ distC < PoolSize
    /\ inClosed' = [inClosed EXCEPT ![distC] = TRUE]
    /\ distC' = distC + 1
    /\ UNCHANGED <<numOfRoutines, inputs, failOn, callerPc, spawnIdx, outClosed, wg,
                   workerPc, workerIn, workerPos, workerOut, distPc, distI, waitPc,
                   outputs, outPos, procBy, calls, crashed>>

\* Line 40: the distributor goroutine returns.
DistReturn ==
    /\ ~crashed
    /\ distPc = "run"
    /\ distI >= M
    /\ distC >= PoolSize
    /\ distPc' = "done"
    /\ UNCHANGED <<numOfRoutines, inputs, failOn, callerPc, spawnIdx, inClosed,
                   outClosed, wg, workerPc, workerIn, workerPos, workerOut, distI,
                   distC, waitPc, outputs, outPos, procBy, calls, crashed>>

\* ------------------------------------------------- the completion goroutine

\* WaitDone without the wg.Wait(): outputChannel is closed straight away.
WaitDoneNoWait ==
    /\ ~crashed
    /\ waitPc = "wait"
    /\ waitPc' = "close"
    /\ UNCHANGED <<numOfRoutines, inputs, failOn, callerPc, spawnIdx, inClosed,
                   outClosed, wg, workerPc, workerIn, workerPos, workerOut, distPc,
                   distI, distC, outputs, outPos, procBy, calls, crashed>>

\* Line 43: wg.Wait() returns once the counter is zero.
WaitDone ==
    /\ ~crashed
    /\ waitPc = "wait"
    /\ wg = 0
    /\ waitPc' = "close"
    /\ UNCHANGED <<numOfRoutines, inputs, failOn, callerPc, spawnIdx, inClosed,
                   outClosed, wg, workerPc, workerIn, workerPos, workerOut, distPc,
                   distI, distC, outputs, outPos, procBy, calls, crashed>>

\* Line 44: close(outputChannel); the goroutine returns.
CloseOutput ==
    /\ ~crashed
    /\ waitPc = "close"
    /\ outClosed' = TRUE
    /\ waitPc' = "done"
    /\ UNCHANGED <<numOfRoutines, inputs, failOn, callerPc, spawnIdx, inClosed, wg,
                   workerPc, workerIn, workerPos, workerOut, distPc, distI, distC,
                   outputs, outPos, procBy, calls, crashed>>

\* ------------------------------------------------------------ the runtime

\* A goroutine that panicked and ran its deferred calls kills the program.
Crash ==
    /\ ~crashed
    /\ \/ distPc = "fatal"
       \/ \E w \in Workers : workerPc[w] = "fatal"
    /\ crashed' = TRUE
    /\ UNCHANGED <<numOfRoutines, inputs, failOn, callerPc, spawnIdx, inClosed,
                   outClosed, wg, workerPc, workerIn, workerPos, workerOut, distPc,
                   distI, distC, waitPc, outputs, outPos, procBy, calls>>

\* ------------------------------------------------------- the specifications
CallerStep == MakeChannels \/ SpawnWorker \/ SpawnDistributor \/ SpawnWaiter \/ Return
WorkerStep(w) == Process(w) \/ WorkerExit(w) \/ Unwind(w) \/ Collect(w) \/ HandOff(w)
DistStep == DistFault \/ CloseInput \/ DistReturn
WaitStep == WaitDone \/ CloseOutput

Next ==
    \/ MakeChannels
    \/ SpawnWorker
    \/ SpawnDistributor
    \/ SpawnWaiter
    \/ \E w \in Workers : Collect(w)
    \/ Return
    \/ \E w \in Workers : Process(w)
    \/ \E w \in Workers : WorkerExit(w)
    \/ \E w \in Workers : Unwind(w)
    \/ \E w \in Workers : HandOff(w)
    \/ DistFault
    \/ CloseInput
    \/ DistReturn
    \/ WaitDone
    \/ CloseOutput
    \/ Crash

Spec == Init /\ [][Next]_vars

\* Every goroutine that can take a step eventually takes one.
Fairness ==
    /\ WF_vars(CallerStep)
    /\ \A w \in 0..MaxRoutines : WF_vars(w \in Workers /\ WorkerStep(w))
    /\ WF_vars(DistStep)
    /\ WF_vars(WaitStep)

FairSpec == Spec /\ Fairness

\* ------------------------------------------------------------ vocabulary

\* process returns for every element of inputs.
TransformReturns == \A k \in 1..M : inputs[k] \notin failOn

Valid == numOfRoutines >= 1
Returned == callerPc = "returned"

\* The multiset of the elements of a sequence.
BagOf(seq) ==
    [v \in {seq[k] : k \in DOMAIN seq} |-> Cardinality({k \in DOMAIN seq : seq[k] = v})]

\* process applied to every input, in input order.
Expected == [k \in 1..M |-> process(inputs[k])]

\* How often process has been invoked for input position p (0-based).
Invocations(p) ==
    Cardinality({wk \in UNION {{<<w, k>> : k \in DOMAIN procBy[w]} : w \in Workers} :
                    procBy[wk[1]][wk[2]] = p})

Positions == 0..(M - 1)

\* Worker w has invoked process for input position p.
ProcessedBy(w, p) == \E k \in DOMAIN procBy[w] : procBy[w][k] = p

\* ------------------------------------------------------------------ claims

\* C1: for numOfRoutines >= 1 and a process that always returns, the sequence
\* Execute returns has exactly len(inputs) elements, whatever the interleaving.
C1_ReturnsExactlyM ==
    (Valid /\ TransformReturns /\ Returned) => Len(outputs) = M

C1_Witness ==
    /\ Returned /\ TransformReturns
    /\ numOfRoutines = 2 /\ M = 3
    /\ Len(outputs) = 3

\* C2: for numOfRoutines >= 1 the multiset of the returned values is the multiset
\* of process(x) over the inputs, duplicates counted (process(x) being defined
\* for every input); the right-hand side does not depend on numOfRoutines.
C2_SameMultiset ==
    (Valid /\ TransformReturns /\ Returned) => BagOf(outputs) = BagOf(Expected)

C2_Witness ==
    /\ Returned /\ numOfRoutines >= 2
    /\ inputs = <<1, 2, 1>> /\ failOn = {}
    /\ outputs = <<4, 2, 2>>

\* C3: for numOfRoutines >= 1 process is invoked at most once for every input
\* position in every reachable state, and exactly once for every position when
\* Execute returns (process returning for every input).
C3_ExactlyOnce ==
    Valid =>
        /\ \A p \in Positions : Invocations(p) <= 1
        /\ (Returned /\ TransformReturns) => \A p \in Positions : Invocations(p) = 1

C3_Witness ==
    /\ Valid /\ Returned /\ TransformReturns
    /\ M = MaxLen
    /\ \A p \in Positions : Invocations(p) = 1

\* C4: for numOfRoutines >= 1 and a process that always returns, under fair
\* scheduling of the goroutines Execute eventually returns (so no state before
\* the return is a deadlock).
C4_EventuallyReturns ==
    (Valid /\ TransformReturns) => <>Returned

C4_Witness ==
    /\ Valid /\ TransformReturns /\ Returned
    /\ numOfRoutines = MaxRoutines /\ M >= 1
    /\ distPc = "done" /\ waitPc = "done"

\* C5: the completion goroutine closes outputChannel only after every worker
\* has finished (its goroutine has run wg.Done); when process returns for every
\* input, every worker has then seen its input channel closed and has processed
\* every input assigned to it.  Execute returns only after outputChannel is closed.
C5_ReturnAfterWorkers ==
    /\ Returned => outClosed
    /\ outClosed =>
          /\ wg = 0
          /\ \A w \in Workers : workerPc[w] \in {"done", "fatal"}
    /\ (outClosed /\ TransformReturns) =>
          \A w \in Workers :
              /\ workerPc[w] = "done" /\ inClosed[w]
              /\ \A p \in Positions : ChannelOf(p) = w => ProcessedBy(w, p)

C5_Witness ==
    /\ Valid /\ TransformReturns /\ M >= 2
    /\ outClosed /\ callerPc = "drain"
    /\ \A w \in Workers : workerPc[w] = "done"

\* C6: after Execute returns nothing of the call is left behind: every worker
\* has terminated, the distributor has performed its last step and every input
\* channel and outputChannel are closed.
C6_NothingLeftBehind ==
    Returned =>
        /\ \A w \in Workers : workerPc[w] = "done"
        /\ distPc \in {"run", "done"} /\ distI >= M /\ distC >= PoolSize
        /\ \A c \in Workers : inClosed[c]
        /\ outClosed

\* C7: for numOfRoutines <= 0 Execute fails synchronously in the caller before
\* any goroutine is spawned, and the caller never receives a result sequence.
C7_RejectsInvalid ==
    numOfRoutines <= 0 =>
        /\ callerPc # "returned"
        /\ distPc = "unspawned" /\ waitPc = "unspawned"
        /\ \A w \in Workers : workerPc[w] = "unspawned"

\* C8: for numOfRoutines <= 0 process is never invoked.
C8_InvalidNeverInvokes ==
    numOfRoutines <= 0 =>
        /\ calls = 0
        /\ \A w \in Workers : workerPc[w] \notin {"process", "send", "panicking", "fatal"}

C8_Witness ==
    /\ numOfRoutines = 0 /\ M = MaxLen
    /\ Returned /\ calls = 0

\* C9: for numOfRoutines >= 1 and empty inputs process is never invoked, Execute
\* returns an empty sequence, and by then all numOfRoutines workers have been
\* spawned and have terminated on their closed input channels.
C9_EmptyInputs ==
    (Valid /\ M = 0) =>
        /\ calls = 0
        /\ Returned =>
              /\ outputs = <<>>
              /\ spawnIdx = numOfRoutines
              /\ \A w \in Workers : workerPc[w] = "done" /\ inClosed[w]

C9_Witness ==
    /\ numOfRoutines = MaxRoutines /\ M = 0
    /\ Returned /\ outputs = <<>>
    /\ \A w \in Workers : workerPc[w] = "done"

\* C10: Execute spawns exactly numOfRoutines workers whatever len(inputs) is;
\* when numOfRoutines > len(inputs) the workers with index >= len(inputs) never
\* receive an item, every worker still terminates, and the call returns all the
\* results (process returning for every input).
C10_MoreWorkersThanInputs ==
    Valid =>
        /\ spawnIdx <= numOfRoutines
        /\ \A w \in Workers : (workerPc[w] # "unspawned") <=> (w < spawnIdx)
        /\ \A w \in Workers :
              w >= M => /\ procBy[w] = <<>>
                        /\ workerPc[w] \in {"unspawned", "recv", "done"}
        /\ (Returned /\ TransformReturns) =>
              /\ spawnIdx = numOfRoutines
              /\ \A w \in Workers : workerPc[w] = "done"
              /\ BagOf(outputs) = BagOf(Expected)

C10_Witness ==
    /\ numOfRoutines = 3 /\ inputs = <<1, 2>> /\ failOn = {}
    /\ Returned
    /\ procBy[2] = <<>> /\ workerPc[2] = "done"
    /\ BagOf(outputs) = BagOf(<<2, 4>>)

\* C11: with numOfRoutines = 1 the outputs are in input order: while the call
\* runs outputs is a prefix of process applied to inputs in order, and at return
\* (process returning for every input) outputs[k] = process(inputs[k]) for all k.
C11_SingleWorkerInOrder ==
    numOfRoutines = 1 =>
        /\ Len(outputs) <= M
        /\ \A k \in DOMAIN outputs : outputs[k] = process(inputs[k]) /\ outPos[k] = k - 1
        /\ (Returned /\ TransformReturns) => outputs = Expected

C11_Witness ==
    /\ numOfRoutines = 1 /\ inputs = <<2, 1, 2>> /\ failOn = {}
    /\ Returned
    /\ outputs = <<4, 2, 4>>

\* C12: with numOfRoutines > 1 and at least two inputs the order of outputs is
\* left to the scheduler (the witness is a state in which the caller may receive
\* the result of position 1 or that of position 0 first), while every execution
\* returns a rearrangement of the same results: at return the collected
\* positions are a permutation of 0..M-1 and each output is process of the
\* input at its position.
C12_OrderFreeSameResults ==
    (numOfRoutines > 1 /\ M >= 2 /\ TransformReturns /\ Returned) =>
        /\ Len(outPos) = M /\ Len(outputs) = M
        /\ {outPos[k] : k \in DOMAIN outPos} = Positions
        /\ \A k \in DOMAIN outputs : outputs[k] = process(inputs[outPos[k] + 1])

C12_Witness ==
    /\ numOfRoutines = 2 /\ inputs = <<1, 2>> /\ failOn = {}
    /\ outputs = <<>>
    /\ workerPos[0] = 0 /\ workerPos[1] = 1
    /\ ENABLED Collect(0) /\ ENABLED Collect(1)

\* The input positions handed to worker w so far, and those collected from it.
HandedTo(w) == {p \in 0..(distI - 1) : p % numOfRoutines = w}
CollectedFrom(w) == {k \in DOMAIN outPos : outPos[k] % numOfRoutines = w}

\* Worker w holds an item it has received and whose result the caller has not taken.
Holding(w) == workerPc[w] \in {"process", "send", "panicking", "fatal"}

\* C13: round-robin: for numOfRoutines >= 1 worker w only ever receives and
\* processes input positions congruent to w modulo numOfRoutines.
C13_RoundRobin ==
    Valid =>
        \A w \in Workers :
            /\ workerPos[w] # -1 => workerPos[w] % numOfRoutines = w
            /\ \A k \in DOMAIN procBy[w] : procBy[w][k] % numOfRoutines = w

C13_Witness ==
    /\ numOfRoutines = 2 /\ M = 3 /\ Returned
    /\ procBy[0] = <<0, 2>> /\ procBy[1] = <<1>>

\* C14: per-worker FIFO: a worker processes its positions in increasing order,
\* and results of positions of the same worker reach outputs in increasing
\* order of position: the result of i is in outputs before that of
\* i + numOfRoutines (and of every later position of the same worker).
C14_PerWorkerFifo ==
    Valid =>
        /\ \A w \in Workers : \A j, k \in DOMAIN procBy[w] :
              j < k => procBy[w][j] < procBy[w][k]
        /\ \A b \in DOMAIN outPos : \A i \in Positions :
              (i < outPos[b] /\ i % numOfRoutines = outPos[b] % numOfRoutines)
                  => \E a \in 1..(b - 1) : outPos[a] = i

C14_Witness ==
    /\ numOfRoutines = 2 /\ M = 3 /\ Returned
    /\ outPos = <<1, 0, 2>>

\* C15: the distributor closes input channels only after all inputs have been
\* handed off, one channel per turn of the close loop and each channel once:
\* channel c is closed exactly when the close loop has passed index c.
C15_CloseAfterDistribution ==
    numOfRoutines >= 0 =>
        /\ distC <= numOfRoutines
        /\ \A c \in Workers : inClosed[c] <=> c < distC
        /\ distC > 0 => distI = M
        /\ distPc = "done" => (distI = M /\ distC = numOfRoutines)
        /\ (distPc = "run" /\ distI >= M /\ distC < numOfRoutines) => ~inClosed[distC]

C15_Witness ==
    /\ numOfRoutines = 3 /\ M = 3
    /\ distC = 2 /\ inClosed[0] /\ inClosed[1] /\ ~inClosed[2]
    /\ distI = 3

\* C16: back-pressure of the unbuffered channels: for numOfRoutines >= 1 every
\* worker has at most one item handed to it and not yet collected, the
\* distributor cannot hand it another while it holds one, and so the items
\* handed off and not yet collected (and the invocations in progress) never
\* exceed numOfRoutines.
C16_BackPressure ==
    Valid =>
        /\ \A w \in Workers :
              /\ Cardinality(HandedTo(w)) - Cardinality(CollectedFrom(w))
                    = IF Holding(w) THEN 1 ELSE 0
              /\ Holding(w) => ~ENABLED HandOff(w)
        /\ distI - Len(outPos) <= numOfRoutines
        /\ Cardinality({w \in Workers : workerPc[w] = "process"}) <= numOfRoutines

C16_Witness ==
    /\ numOfRoutines = 2 /\ M = 3 /\ failOn = {}
    /\ distI = 2 /\ outPos = <<>>
    /\ workerPc[0] = "send" /\ workerPc[1] = "process"

\* Some goroutine of the call can take a step.
GoroutineStep == CallerStep \/ (\E w \in Workers : WorkerStep(w)) \/ DistStep \/ WaitStep

\* C17: a failing process never leaves its worker dead while the caller and all
\* the other goroutines of the call are blocked for good in a running program,
\* Execute not having returned.
C17_NoDeadlockOnFailure ==
    ~ /\ Valid
      /\ \E w \in Workers : workerPc[w] = "fatal"
      /\ callerPc = "drain" /\ ~crashed
      /\ ~ENABLED GoroutineStep

\* C18: for numOfRoutines >= 1 no channel operation faults: no worker is about
\* to send (or to process and then send) on a closed outputChannel, the
\* distributor's next send is on an open input channel, the channel the close
\* loop is about to close is open, and outputChannel is open when the
\* completion goroutine is about to close it.
C18_NoChannelFault ==
    Valid =>
        /\ \A w \in Workers : workerPc[w] \in {"process", "send"} => ~outClosed
        /\ (distPc = "run" /\ distI < M) => ~inClosed[distI % numOfRoutines]
        /\ (distPc = "run" /\ distI >= M /\ distC < numOfRoutines) => ~inClosed[distC]
        /\ waitPc = "close" => ~outClosed
        /\ waitPc \in {"unspawned", "wait"} => ~outClosed

C18_Witness ==
    /\ numOfRoutines = 2 /\ M = 3 /\ failOn = {}
    /\ Returned
    /\ distPc = "done" /\ waitPc = "done"
    /\ \A c \in Workers : inClosed[c]

\* ------------------------------------------- longer inputs than workers + 1

\* The start of a call with len(inputs) = MaxLen + 1 and fewer workers, so that
\* two positions at least numOfRoutines apart belong to different workers.
InitLong ==
    /\ numOfRoutines \in 0..(MaxRoutines - 1)
    /\ inputs \in [1..(MaxLen + 1) -> Values]
    /\ failOn \in SUBSET Values
    /\ callerPc = "start"
    /\ spawnIdx = 0
    /\ inClosed = [c \in Workers |-> FALSE]
    /\ outClosed = FALSE
    /\ wg = 0
    /\ workerPc = [w \in Workers |-> "unspawned"]
    /\ workerIn = [w \in Workers |-> 0]
    /\ workerPos = [w \in Workers |-> -1]
    /\ workerOut = [w \in Workers |-> 0]
    /\ distPc = "unspawned"
    /\ distI = 0
    /\ distC = 0
    /\ waitPc = "unspawned"
    /\ outputs = <<>>
    /\ outPos = <<>>
    /\ procBy = [w \in Workers |-> <<>>]
    /\ calls = 0
    /\ crashed = FALSE

LongSpec == InitLong /\ [][Next]_vars

\* C19: reordering is bounded by numOfRoutines: a position is handed off only
\* after every position at least numOfRoutines before it has been collected, so
\* in outputs the result of i precedes the result of every k >= i + numOfRoutines.
C19_BoundedReordering ==
    Valid =>
        /\ \A i \in Positions :
              distI > i + numOfRoutines => \E a \in DOMAIN outPos : outPos[a] = i
        /\ \A b \in DOMAIN outPos : \A i \in Positions :
              outPos[b] >= i + numOfRoutines => \E a \in 1..(b - 1) : outPos[a] = i

C19_Witness ==
    /\ numOfRoutines = 2 /\ M = 4 /\ Returned
    /\ outPos = <<1, 0, 3, 2>>

\* C20: with numOfRoutines = 0 there is no worker and wg stays 0, so wg.Wait
\* passes at once and Execute can return an empty slice before the distributor
\* has faulted on i % 0 (the witness: returned, len(inputs) >= 1, the
\* distributor not yet run); nothing is ever processed or collected, the
\* distributor never finishes normally when len(inputs) >= 1, and with
\* len(inputs) = 0 there is no fault at all.
C20_ZeroRoutines ==
    numOfRoutines = 0 =>
        /\ wg = 0 /\ calls = 0 /\ outputs = <<>>
        /\ (waitPc = "wait" /\ ~crashed) => ENABLED WaitDone
        /\ M >= 1 => distPc # "done"
        /\ M = 0 => (distPc # "fatal" /\ ~crashed)

C20_Witness ==
    /\ numOfRoutines = 0 /\ M >= 1
    /\ Returned /\ outputs = <<>>
    /\ distPc = "run" /\ ~crashed

====
